---- MODULE Spec2Model ----
(***************************************************************************)
(* A model of tgwp_updater.py: the Updater that mirrors the chapters of a  *)
(* forum thread to one or more subreddits.                                 *)
(*                                                                         *)
(* Strings that the program builds or takes apart (titles) are sequences   *)
(* of string tokens, so that formatting a title and reading the chapter    *)
(* number back from it are two different computations.                     *)
(***************************************************************************)
EXTENDS Integers, Sequences, FiniteSets, TLC

VARIABLES
    pc,             \* where the process is
    err,            \* the exception that ended the process, "none" otherwise
    mode,           \* how the Updater is driven: main() or loop()
    interval,       \* loop(interval)
    self_url,       \* self.url
    self_template,  \* self.template
    self_settings,  \* self.settings
    subs,           \* self.subs
    user,           \* self.session.user.name
    logins,         \* calls of _login
    links,          \* self.links
    forum,          \* the forum page as the server holds it now
    fetches,        \* calls of requests.get
    parses,         \* calls of BeautifulSoup
    last_status,    \* status code of the most recent fetch
    cycles,         \* iterations of loop() started
    reddit,         \* subreddit -> its posts, newest first
    latest_post,    \* run(): latest_post
    chapter_number, \* run(): chapter_number
    count,          \* run(): new_post_count, _update_latest_link(count)
    outcome,        \* how the current run() went
    sub_idx,        \* _update_latest_link: position in self.subs
    chap_idx,       \* _update_latest_link: position in new_chapters
    log,            \* the submission calls and re-queries of the current run()
    sent,           \* the messages sent to the admin in the current run()
    rate_limits     \* rate-limit answers given so far

vars == <<pc, err, mode, interval, self_url, self_template, self_settings,
          subs, user, logins, links, forum, fetches, parses, last_status, cycles, reddit, latest_post, chapter_number,
          count, outcome, sub_idx, chap_idx, log, sent, rate_limits>>

(***************************************************************************)
(* Bounds of the model.                                                    *)
(***************************************************************************)
MaxAnchors == 2
MaxCycles == 2
MaxRateLimits == 1

\* the anchors of a document given to the extraction alone
MaxDocAnchors == 3

(***************************************************************************)
(* Settings (settings.json) and fixed strings of the program.              *)
(***************************************************************************)
Admin == "admin"
Uploaders == {"bot", "mod"}
IndexUrl == "index"
TitleTemplate == <<"{i}", " - ", "{title}">>
Separator == " - "
Sentinel == <<"On those who live to see old age in a profession where most die young.">>
ContSuffix == " (Cont.)"
MirrorSub == "tgwp"
Subreddits == {"tgwp", "other"}

StatusCodes == {200, 404}
SubmitResults == {"ok", "RateLimitExceeded", "APIException"}

Chapter(title, url) == [title |-> title, url |-> url]

NoPost == [author |-> "", title |-> <<>>, url |-> ""]

Max(a, b) == IF a >= b THEN a ELSE b

(***************************************************************************)
(* Decimal rendering of an integer and its inverse, int().                 *)
(***************************************************************************)
Digits == <<"1", "2", "3", "4", "5", "6", "7", "8", "9">>
MaxNum == Len(Digits)

ToStr(n) == IF n = 0 THEN "0" ELSE Digits[n]

IsInt(s) == \E n \in 0..MaxNum : ToStr(n) = s

ParseInt(s) == CHOOSE n \in 0..MaxNum : ToStr(n) = s

(***************************************************************************)
(* str.format on the title template: {i} and {title} are substituted.      *)
(***************************************************************************)
RECURSIVE Format(_, _, _)
Format(template, i, title) ==
    IF template = <<>> THEN <<>>
    ELSE LET tok == Head(template)
             piece == IF tok = "{i}" THEN <<ToStr(i)>>
                      ELSE IF tok = "{title}" THEN title
                      ELSE <<tok>>
         IN  piece \o Format(Tail(template), i, title)

(***************************************************************************)
(* str.partition(sep)[0]: what precedes the first separator, the whole     *)
(* string when there is none.                                              *)
(***************************************************************************)
RECURSIVE PartitionHead(_, _)
PartitionHead(title, sep) ==
    IF title = <<>> THEN <<>>
    ELSE IF Head(title) = sep THEN <<>>
    ELSE <<Head(title)>> \o PartitionHead(Tail(title), sep)

\* int(...) succeeds on exactly one numeric token
TitleHasNumber(title) ==
    LET h == PartitionHead(title, Separator)
    IN  Len(h) = 1 /\ IsInt(h[1])

TitleNumber(title) == ParseInt(PartitionHead(title, Separator)[1])

(***************************************************************************)
(* _get_story_links, the walk over the anchors of the article.  An anchor  *)
(* is [text, href, after] where after tells what follows the anchor's next *)
(* sibling: "blank" or "text" (a string), "tag" (an element) or "missing". *)
(* The result is [error, links].                                           *)
(***************************************************************************)
RECURSIVE Walk(_, _, _, _)
Walk(anchors, k, post_title, acc) ==
    IF k > Len(anchors)
    THEN [error |-> "AttributeError", links |-> <<>>]      \* link is None
    ELSE LET link == anchors[k] IN
         IF link.text = Sentinel
         THEN [error |-> "none", links |-> acc]
         ELSE IF link.after = "missing"
         THEN [error |-> "AttributeError", links |-> <<>>]
         ELSE IF link.after = "tag"
         THEN [error |-> "TypeError", links |-> <<>>]
         ELSE LET acc1 == Append(acc, Chapter(link.text, link.href))
                  story == link.after = "text"
                  title1 == IF story /\ post_title = link.text
                            THEN Append(post_title, ContSuffix)
                            ELSE post_title
                  acc2 == IF story
                          THEN Append(acc1, Chapter(title1, IndexUrl))
                          ELSE acc1
              IN  Walk(anchors, k + 1, title1, acc2)

ParseLinks_SkipsFirst(doc) ==
    IF ~doc.article
    THEN [error |-> "AttributeError", links |-> <<>>]
    ELSE Walk(doc.anchors, 2, doc.title, <<>>)

ParseLinks(doc) ==
    IF ~doc.article
    THEN [error |-> "AttributeError", links |-> <<>>]
    ELSE Walk(doc.anchors, 1, doc.title, <<>>)

(***************************************************************************)
(* _get_latest_post: the newest post of /r/tgwp by a permitted uploader.   *)
(***************************************************************************)
RECURSIVE FirstByUploader_Oldest(_)
FirstByUploader_Oldest(posts) ==
    IF posts = <<>> THEN NoPost
    ELSE IF FirstByUploader_Oldest(Tail(posts)) # NoPost
    THEN FirstByUploader_Oldest(Tail(posts))
    ELSE IF Head(posts).author \in Uploaders THEN Head(posts)
    ELSE NoPost

RECURSIVE FirstByUploader(_)
FirstByUploader(posts) ==
    IF posts = <<>> THEN NoPost
    ELSE IF Head(posts).author \in Uploaders THEN Head(posts)
    ELSE FirstByUploader(Tail(posts))

GetLatestPost == FirstByUploader(reddit[MirrorSub])

ProblemMessage == [subject |-> "TGWP_Updater problem", title |-> <<"Cannot get latest post">>]

UpdateMessage(title) == [subject |-> "TGWP Update", title |-> title]

(***************************************************************************)
(* The forum pages of the model: n chapter anchors, the inline story after *)
(* anchor t (0: none), then the sentinel anchor if the page has one.       *)
(***************************************************************************)
AnchorText(k) == <<"c", ToStr(k)>>
AnchorHref(k) == ToStr(k)

ChapterAnchor(k, t) ==
    [text |-> AnchorText(k), href |-> AnchorHref(k),
     after |-> IF k = t THEN "text" ELSE "blank"]

SentinelAnchor == [text |-> Sentinel, href |-> "end", after |-> "blank"]

Page(n, t, sentinel) ==
    [article |-> TRUE,
     title |-> <<"Main">>,
     anchors |-> [k \in 1..n |-> ChapterAnchor(k, t)]
                 \o (IF sentinel THEN <<SentinelAnchor>> ELSE <<>>)]

Pages ==
    { Page(n, t, s) : n \in 0..MaxAnchors, t \in 0..1, s \in BOOLEAN }

\* the server adds a chapter anchor at the end of the table of contents
HasSentinel(doc) ==
    doc.anchors # <<>> /\ doc.anchors[Len(doc.anchors)].text = Sentinel

ChapterAnchors(doc) ==
    IF HasSentinel(doc) THEN Len(doc.anchors) - 1 ELSE Len(doc.anchors)

GrowPage(doc) ==
    LET n == ChapterAnchors(doc)
        body == SubSeq(doc.anchors, 1, n) \o <<ChapterAnchor(n + 1, 0)>>
    IN  [doc EXCEPT !.anchors =
            body \o (IF HasSentinel(doc) THEN <<SentinelAnchor>> ELSE <<>>)]

(***************************************************************************)
(* The posts of the model.  A mirrored post of chapter k carries the title *)
(* the template gives it and the chapter's url.                            *)
(***************************************************************************)
PostOf(author, k, chapters) ==
    IF k \in 1..Len(chapters)
    THEN [author |-> author,
          title |-> Format(TitleTemplate, k, chapters[k].title),
          url |-> chapters[k].url]
    ELSE [author |-> author,
          title |-> Format(TitleTemplate, k, <<"old">>),
          url |-> "old"]

MetaPost(author) == [author |-> author, title |-> <<"Meta">>, url |-> "meta"]

MirrorStates(chapters) ==
    LET byUploader == { PostOf("bot", k, chapters) : k \in 0..(MaxAnchors + 2) }
    IN  {<<>>, <<MetaPost("guest")>>, <<MetaPost("mod")>>}
        \cup { <<p>> : p \in byUploader }
        \cup {<<MetaPost("guest"), PostOf("bot", 1, chapters)>>}

\* settings.json as loaded, with the subreddits it names
Settings(subreddits) ==
    [tgwp_index_url |-> IndexUrl,
     subs |-> subreddits,
     title_template |-> TitleTemplate,
     admin |-> Admin,
     uploaders |-> Uploaders]

Entries == {<<"main", 0>>, <<"loop", 0>>, <<"loop", 10>>}
SubsChoices == {<<"tgwp">>, <<"tgwp", "other">>}
Accounts == {"admin", "bot"}

Init ==
    /\ pc = "start"
    /\ err = "none"
    /\ \E e \in Entries : mode = e[1] /\ interval = e[2]
    /\ user \in Accounts
    /\ subs \in SubsChoices
    \* an account that is no uploader never catches up and replays every
    \* chapter in every cycle: in a loop it is given the one subreddit
    /\ (user \notin Uploaders /\ mode = "loop") => Len(subs) = 1
    /\ self_settings = Settings(subs)
    /\ self_url = self_settings.tgwp_index_url
    /\ self_template = self_settings.title_template
    /\ logins = 0
    /\ links = <<>>
    /\ forum \in Pages
    /\ fetches = 0
    /\ parses = 0
    /\ last_status = 0
    /\ cycles = 0
    /\ \E m \in MirrorStates(ParseLinks(forum).links) :
          reddit = [s \in Subreddits |-> IF s = MirrorSub THEN m ELSE <<>>]
    /\ latest_post = NoPost
    /\ chapter_number = 0
    /\ count = 0
    /\ outcome = "none"
    /\ sub_idx = 0
    /\ chap_idx = 0
    /\ log = <<>>
    /\ sent = <<>>
    /\ rate_limits = 0

(***************************************************************************)
(* __init__ and _login.                                                    *)
(***************************************************************************)
Login_SkipsAuth ==
    /\ pc = "start"
    /\ pc' = "init_links"
    /\ UNCHANGED <<err, mode, interval, self_url, self_template,
                   self_settings, subs, user, logins, links, forum, fetches,
                   parses, last_status, cycles, reddit, latest_post,
                   chapter_number, count, outcome, sub_idx, chap_idx, log,
                   sent, rate_limits>>

Login ==
    /\ pc = "start"
    /\ logins' = logins + 1
    /\ pc' = "init_links"
    /\ UNCHANGED <<err, mode, interval, self_url, self_template,
                   self_settings, subs, user, links, forum, fetches,
                   parses, last_status, cycles, reddit, latest_post,
                   chapter_number, count, outcome, sub_idx, chap_idx, log,
                   sent, rate_limits>>

(***************************************************************************)
(* _get_story_links: the fetch, the status check, then the parse.          *)
(***************************************************************************)
StatusOk_Always(status) == TRUE

StatusOk(status) == status = 200

GetStoryLinks(status, next_pc) ==
    /\ fetches' = fetches + 1
    /\ last_status' = status
    /\ IF ~StatusOk(status)
       THEN /\ err' = "TgwpError"
            /\ pc' = "crashed"
            /\ UNCHANGED <<parses, links>>
       ELSE /\ parses' = parses + 1
            /\ LET r == ParseLinks(forum) IN
               IF r.error # "none"
               THEN /\ err' = r.error
                    /\ pc' = "crashed"
                    /\ UNCHANGED links
               ELSE /\ links' = r.links
                    /\ pc' = next_pc
                    /\ UNCHANGED err

InitLinks ==
    /\ pc = "init_links"
    /\ \E status \in StatusCodes :
          GetStoryLinks(status, IF mode = "main" THEN "run" ELSE "loop_fetch")
    /\ UNCHANGED <<mode, interval, self_url, self_template,
                   self_settings, subs, user, logins, forum, cycles, reddit,
                   latest_post, chapter_number, count, outcome, sub_idx,
                   chap_idx, log, sent, rate_limits>>

(***************************************************************************)
(* loop: one iteration fetches the links again and runs.                   *)
(***************************************************************************)
LoopFetch ==
    /\ pc = "loop_fetch"
    /\ cycles < MaxCycles
    /\ cycles' = cycles + 1
    /\ \E status \in StatusCodes : GetStoryLinks(status, "run")
    /\ UNCHANGED <<mode, interval, self_url, self_template,
                   self_settings, subs, user, logins, forum, reddit,
                   latest_post, chapter_number, count, outcome, sub_idx,
                   chap_idx, log, sent, rate_limits>>

(***************************************************************************)
(* _update_latest_link: the chapters to submit and the title of each.      *)
(***************************************************************************)
\* where seq[-n:] starts, counted from 0, in a sequence of length len
SliceStart(len, n) ==
    IF -n < 0 THEN Max(0, len - n) ELSE IF -n > len THEN len ELSE -n

\* links[-count:]
NewChaptersOf(seq, n) ==
    [j \in 1..(Len(seq) - SliceStart(Len(seq), n)) |->
        seq[SliceStart(Len(seq), n) + j]]

NewChapters == NewChaptersOf(links, count)

\* where the j-th new chapter stands in self.links
SourceOf(j) == SliceStart(Len(links), count) + j

ReversedRange_NotReversed(n, j) == j - 1

\* the j-th element of reversed(range(n)), j from 1
ReversedRange(n, j) == n - j

TitleIndex_FromZero(j) == Len(links) - ReversedRange(count, j) - 1

\* the i handed to the template for the j-th new chapter
TitleIndex(j) == Len(links) - ReversedRange(count, j)

NewTitle(j) == Format(self_template, TitleIndex(j), NewChapters[j].title)

\* an entry of the log: a call of session.submit and its answer, or what
\* _get_latest_post gave after a back-off (seen: the url of that post)
Entry(op, attempt, res, seen) ==
    [op |-> op,
     attempt |-> attempt,
     sub |-> subs[sub_idx],
     pos |-> SourceOf(chap_idx),
     i |-> TitleIndex(chap_idx),
     title |-> NewTitle(chap_idx),
     url |-> NewChapters[chap_idx].url,
     res |-> res,
     seen |-> seen]

Call(attempt, res) == Entry("submit", attempt, res, "")

Requeried(res, seen) == Entry("requery", 1, res, seen)

Advance_ChaptersOuter ==
    IF sub_idx < Len(subs)
    THEN /\ sub_idx' = sub_idx + 1
         /\ pc' = "submit"
         /\ UNCHANGED <<chap_idx, outcome>>
    ELSE IF chap_idx < Len(NewChapters)
    THEN /\ chap_idx' = chap_idx + 1
         /\ sub_idx' = 1
         /\ pc' = "submit"
         /\ UNCHANGED outcome
    ELSE /\ pc' = "returned"
         /\ outcome' = "replayed"
         /\ UNCHANGED <<sub_idx, chap_idx>>

\* the two nested for loops move on to the next chapter, then the next sub
Advance ==
    IF chap_idx < Len(NewChapters)
    THEN /\ chap_idx' = chap_idx + 1
         /\ pc' = "submit"
         /\ UNCHANGED <<sub_idx, outcome>>
    ELSE IF sub_idx < Len(subs)
    THEN /\ sub_idx' = sub_idx + 1
         /\ chap_idx' = 1
         /\ pc' = "submit"
         /\ UNCHANGED outcome
    ELSE /\ pc' = "returned"
         /\ outcome' = "replayed"
         /\ UNCHANGED <<sub_idx, chap_idx>>

(***************************************************************************)
(* run, up to the call of _update_latest_link.                             *)
(***************************************************************************)
IsNone_Never(post) == FALSE

IsNone(post) == post = NoPost

NewPostCount_OffByOne(n, k) == n - k - 1

NewPostCount(n, k) == n - k

HasNew_Zero(c) == c >= 0

HasNew(c) == c > 0

RunResolve ==
    /\ pc = "run"
    /\ log' = <<>>
    /\ latest_post' = GetLatestPost
    /\ IF IsNone(latest_post')
       THEN /\ sent' = <<ProblemMessage>>
            /\ outcome' = "unresolved"
            /\ pc' = "returned"
            /\ UNCHANGED <<err, chapter_number, count, sub_idx, chap_idx>>
       ELSE IF ~TitleHasNumber(latest_post'.title)
       THEN /\ sent' = <<>>
            /\ outcome' = "failed"
            /\ err' = "ValueError"
            /\ pc' = "crashed"
            /\ UNCHANGED <<chapter_number, count, sub_idx, chap_idx>>
       ELSE /\ sent' = <<>>
            /\ chapter_number' = TitleNumber(latest_post'.title)
            /\ count' = NewPostCount(Len(links), chapter_number')
            /\ UNCHANGED err
            /\ IF HasNew(count') /\ subs # <<>>
                  /\ NewChaptersOf(links, count') # <<>>
               THEN /\ outcome' = "replaying"
                    /\ sub_idx' = 1
                    /\ chap_idx' = 1
                    /\ pc' = "submit"
               ELSE /\ outcome' = IF HasNew(count') THEN "replayed" ELSE "uptodate"
                    /\ pc' = "returned"
                    /\ UNCHANGED <<sub_idx, chap_idx>>
    /\ UNCHANGED <<mode, interval, self_url, self_template,
                   self_settings, subs, user, logins, links, forum, fetches,
                   parses, last_status, cycles, reddit, rate_limits>>

(***************************************************************************)
(* _submit_post: the post is created, and the admin is told when another   *)
(* account is posting.                                                     *)
(***************************************************************************)
NewPost(title, url) == [author |-> user, title |-> title, url |-> url]

TellsAdmin_Always == TRUE

TellsAdmin == user # Admin

SubmitPost(sub, title, url) ==
    /\ reddit' = [reddit EXCEPT ![sub] = <<NewPost(title, url)>> \o @]
    /\ sent' = IF TellsAdmin THEN Append(sent, UpdateMessage(title)) ELSE sent

\* the answer the site gives to a submission
Answers(res) ==
    /\ res \in SubmitResults
    /\ res = "RateLimitExceeded" => rate_limits < MaxRateLimits
    /\ rate_limits' = IF res = "RateLimitExceeded" THEN rate_limits + 1
                      ELSE rate_limits

(***************************************************************************)
(* _update_latest_link: the first attempt for a chapter and a sub.         *)
(***************************************************************************)
Submit ==
    /\ pc = "submit"
    /\ \E res \in SubmitResults :
          /\ Answers(res)
          /\ log' = Append(log, Call(1, res))
          /\ IF res = "ok"
             THEN /\ SubmitPost(subs[sub_idx], NewTitle(chap_idx),
                                NewChapters[chap_idx].url)
                  /\ Advance
                  /\ UNCHANGED err
             ELSE IF res = "RateLimitExceeded"
             THEN /\ pc' = "backoff"
                  /\ UNCHANGED <<err, reddit, sent, sub_idx, chap_idx, outcome>>
             ELSE /\ err' = res
                  /\ pc' = "crashed"
                  /\ outcome' = "failed"
                  /\ UNCHANGED <<reddit, sent, sub_idx, chap_idx>>
    /\ UNCHANGED <<mode, interval, self_url, self_template,
                   self_settings, subs, user, logins, links, forum, fetches,
                   parses, last_status, cycles, latest_post, chapter_number,
                   count>>

(***************************************************************************)
(* _update_latest_link: after the ten minutes, the latest post is asked    *)
(* for again and compared with the chapter.                                *)
(***************************************************************************)
AlreadySubmitted_Never(post, link) == FALSE

AlreadySubmitted(post, link) == post.url = link.url

Requery ==
    /\ pc = "backoff"
    /\ LET post == GetLatestPost IN
       IF post = NoPost
       THEN /\ sent' = Append(sent, ProblemMessage)
            /\ log' = Append(log, Requeried("none", ""))
            /\ err' = "AttributeError"
            /\ pc' = "crashed"
            /\ outcome' = "failed"
            /\ UNCHANGED <<sub_idx, chap_idx>>
       ELSE IF AlreadySubmitted(post, NewChapters[chap_idx])
       THEN /\ log' = Append(log, Requeried("match", post.url))
            /\ Advance
            /\ UNCHANGED <<err, sent>>
       ELSE /\ log' = Append(log, Requeried("nomatch", post.url))
            /\ pc' = "retry"
            /\ UNCHANGED <<err, sent, sub_idx, chap_idx, outcome>>
    /\ UNCHANGED <<mode, interval, self_url, self_template,
                   self_settings, subs, user, logins, links, forum, fetches,
                   parses, last_status, cycles, reddit, latest_post,
                   chapter_number, count, rate_limits>>

(***************************************************************************)
(* _update_latest_link: the second attempt, outside any try.               *)
(***************************************************************************)
Retry ==
    /\ pc = "retry"
    /\ \E res \in SubmitResults :
          /\ Answers(res)
          /\ log' = Append(log, Call(2, res))
          /\ IF res = "ok"
             THEN /\ SubmitPost(subs[sub_idx], NewTitle(chap_idx),
                                NewChapters[chap_idx].url)
                  /\ Advance
                  /\ UNCHANGED err
             ELSE /\ err' = res
                  /\ pc' = "crashed"
                  /\ outcome' = "failed"
                  /\ UNCHANGED <<reddit, sent, sub_idx, chap_idx>>
    /\ UNCHANGED <<mode, interval, self_url, self_template,
                   self_settings, subs, user, logins, links, forum, fetches,
                   parses, last_status, cycles, latest_post, chapter_number,
                   count>>

(***************************************************************************)
(* After run: main returns, loop sleeps if it has an interval and goes on. *)
(***************************************************************************)
Sleeps(n) == n # 0

AfterRun ==
    /\ pc = "returned"
    /\ pc' = IF mode = "main" THEN "exited"
             ELSE IF Sleeps(interval) THEN "sleeping"
             ELSE "loop_fetch"
    /\ UNCHANGED <<err, mode, interval, self_url, self_template,
                   self_settings, subs, user, logins, links, forum,
                   fetches, parses, last_status, cycles, reddit, latest_post,
                   chapter_number, count, outcome, sub_idx, chap_idx, log,
                   sent, rate_limits>>

Wake ==
    /\ pc = "sleeping"
    /\ pc' = "loop_fetch"
    /\ UNCHANGED <<err, mode, interval, self_url, self_template,
                   self_settings, subs, user, logins, links, forum,
                   fetches, parses, last_status, cycles, reddit, latest_post,
                   chapter_number, count, outcome, sub_idx, chap_idx, log,
                   sent, rate_limits>>

(***************************************************************************)
(* The world around the process.  Another uploader mirrors by hand the     *)
(* chapter that follows the latest mirrored one; the process looks at the  *)
(* subreddit at the start of run and after a back-off, and the step is     *)
(* taken right before it looks.  The author adds a chapter to the forum    *)
(* page, which the process reads at the start of a cycle.  The posts of    *)
(* the subreddit are removed while the process waits out a rate limit, so  *)
(* that the listing it reads next has no post by an uploader.              *)
(***************************************************************************)
PostsRemoved ==
    /\ pc = "backoff"
    /\ reddit[MirrorSub] # <<>>
    /\ reddit' = [reddit EXCEPT ![MirrorSub] = <<>>]
    /\ UNCHANGED <<pc, err, mode, interval, self_url, self_template,
                   self_settings, subs, user, logins, links, forum,
                   fetches, parses, last_status, cycles, latest_post,
                   chapter_number, count, outcome, sub_idx, chap_idx, log,
                   sent, rate_limits>>

OtherUploaderPosts ==
    /\ pc \in {"run", "backoff"}
    /\ GetLatestPost # NoPost
    /\ TitleHasNumber(GetLatestPost.title)
    /\ LET chapters == ParseLinks(forum).links
           k == TitleNumber(GetLatestPost.title) + 1
       IN  /\ k \in 1..Len(chapters)
           /\ reddit' = [reddit EXCEPT ![MirrorSub] =
                            <<PostOf("mod", k, chapters)>> \o @]
    /\ UNCHANGED <<pc, err, mode, interval, self_url, self_template,
                   self_settings, subs, user, logins, links, forum,
                   fetches, parses, last_status, cycles, latest_post,
                   chapter_number, count, outcome, sub_idx, chap_idx, log,
                   sent, rate_limits>>

ForumGrows ==
    /\ pc \in {"loop_fetch", "run"}
    /\ ChapterAnchors(forum) < MaxAnchors
    /\ forum' = GrowPage(forum)
    /\ UNCHANGED <<pc, err, mode, interval, self_url, self_template,
                   self_settings, subs, user, logins, links,
                   fetches, parses, last_status, cycles, reddit, latest_post,
                   chapter_number, count, outcome, sub_idx, chap_idx, log,
                   sent, rate_limits>>

Next ==
    \/ Login
    \/ InitLinks
    \/ LoopFetch
    \/ RunResolve
    \/ Submit
    \/ Requery
    \/ Retry
    \/ AfterRun
    \/ Wake
    \/ OtherUploaderPosts
    \/ PostsRemoved
    \/ ForumGrows

Spec == Init /\ [][Next]_vars

(***************************************************************************)
(* The constructor on any document: the texts an anchor can carry are the  *)
(* post's title, the title with the suffix, another title and the          *)
(* sentinel; what follows an anchor is any of the four cases of Walk.      *)
(***************************************************************************)
DocTexts == {<<"Main">>, <<"Main", ContSuffix>>, <<"c">>, Sentinel}

DocAfters == {"blank", "text", "tag", "missing"}

\* the document with n anchors of texts t and followers a
Document(n, t, a) ==
    [article |-> TRUE,
     title |-> <<"Main">>,
     anchors |-> [k \in 1..n |->
                    [text |-> t[k], href |-> ToStr(k), after |-> a[k]]]]

ExtractInit ==
    /\ pc = "start"
    /\ err = "none"
    /\ mode = "main"
    /\ interval = 0
    /\ subs = <<"tgwp">>
    /\ self_settings = Settings(subs)
    /\ self_url = self_settings.tgwp_index_url
    /\ self_template = self_settings.title_template
    /\ user = "bot"
    /\ logins = 0
    /\ links = <<>>
    /\ \E n \in 0..MaxDocAnchors :
          \E t \in [1..n -> DocTexts], a \in [1..n -> DocAfters] :
              forum = Document(n, t, a)
    /\ fetches = 0
    /\ parses = 0
    /\ last_status = 0
    /\ cycles = 0
    /\ reddit = [s \in Subreddits |-> <<>>]
    /\ latest_post = NoPost
    /\ chapter_number = 0
    /\ count = 0
    /\ outcome = "none"
    /\ sub_idx = 0
    /\ chap_idx = 0
    /\ log = <<>>
    /\ sent = <<>>
    /\ rate_limits = 0

ExtractNext ==
    \/ Login
    \/ InitLinks

ExtractSpec == ExtractInit /\ [][ExtractNext]_vars

(***************************************************************************)
(* What the properties below read from the log of the current run().       *)
(***************************************************************************)
IsCall(e) == e.op = "submit"

\* the calls made for one subreddit, in the order they were made
CallsTo(sub) ==
    LET to(e) == e.op = "submit" /\ e.sub = sub
    IN  SelectSeq(log, to)

\* the calls made for one subreddit and one position of self.links
CallsFor(sub, p) ==
    LET for(e) == e.op = "submit" /\ e.sub = sub /\ e.pos = p
    IN  SelectSeq(log, for)

NoCallFailed == \A n \in 1..Len(log) : log[n].op = "submit" /\ log[n].res = "ok"

\* the log is that of self.links: a new cycle has not replaced the links yet
LogIsCurrent == pc # "run"

ReplayFinished == pc = "returned" /\ outcome = "replayed"

(***************************************************************************)
(* C1: a run() with N links and a mirrored chapter number K, N - K > 0, in *)
(* which no submission call fails, submits to each subreddit exactly the   *)
(* links at positions K+1..N, in that order, and none at a position <= K.  *)
(***************************************************************************)
C1_SelectsLastMissing ==
    (ReplayFinished /\ NoCallFailed /\ Len(links) - chapter_number > 0) =>
        \A s \in 1..Len(subs) :
            LET made == CallsTo(subs[s])
                K == chapter_number
            IN  /\ Len(made) = Len(links) - K
                /\ \A j \in 1..Len(made) :
                      /\ made[j].pos = K + j
                      /\ made[j].url = links[K + j].url

C1_Witness ==
    /\ ReplayFinished
    /\ NoCallFailed
    /\ Len(subs) = 2
    /\ chapter_number = 1
    /\ Len(links) = 3
    /\ Len(log) = 4

(***************************************************************************)
(* C2: when the mirrored chapter number K is at least the number of links  *)
(* N, run() makes no submission call and sends no message.                 *)
(***************************************************************************)
C2_UpToDateDoesNothing ==
    (pc \in {"submit", "backoff", "retry", "returned"}
        /\ latest_post # NoPost
        /\ chapter_number >= Len(links)) =>
        /\ pc = "returned"
        /\ outcome = "uptodate"
        /\ log = <<>>
        /\ sent = <<>>

C2_Witness ==
    /\ pc = "returned"
    /\ latest_post # NoPost
    /\ chapter_number = Len(links)
    /\ Len(links) = 2
    /\ user # Admin

(***************************************************************************)
(* C3: when the replay finishes, and no other uploader has mirrored a      *)
(* chapter meanwhile, one post has been created in every configured        *)
(* subreddit for every missing chapter, rate limits or not.                *)
(***************************************************************************)
NoOtherMirroring ==
    \A n \in 1..Len(reddit[MirrorSub]) :
        reddit[MirrorSub][n].author = "mod" => reddit[MirrorSub][n].url = "meta"

Created(sub, p) ==
    LET ok(e) == e.op = "submit" /\ e.sub = sub /\ e.pos = p /\ e.res = "ok"
    IN  Len(SelectSeq(log, ok))

C3_EachDestinationOnce ==
    (ReplayFinished /\ NoOtherMirroring) =>
        \A s \in 1..Len(subs) :
            \A p \in (chapter_number + 1)..Len(links) :
                Created(subs[s], p) = 1

(***************************************************************************)
(* C4: every submission call for the link at position p of self.links has  *)
(* the title the template gives for i = p and the link's title, and the    *)
(* link's url; the call after a rate limit has the same i, title and url   *)
(* as the call before it.                                                  *)
(***************************************************************************)
C4_TitleAndUrlOfPosition ==
    LogIsCurrent =>
        \A n \in 1..Len(log) :
            LET e == log[n] IN
            IsCall(e) =>
                /\ e.pos \in 1..Len(links)
                /\ e.i = e.pos
                /\ e.title = Format(TitleTemplate, e.pos, links[e.pos].title)
                /\ e.url = links[e.pos].url
                /\ e.attempt = 2 =>
                      /\ n > 2
                      /\ IsCall(log[n - 2])
                      /\ log[n - 2].attempt = 1
                      /\ log[n - 2].sub = e.sub
                      /\ log[n - 2].pos = e.pos
                      /\ log[n - 2].i = e.i
                      /\ log[n - 2].title = e.title
                      /\ log[n - 2].url = e.url

C4_Witness ==
    /\ LogIsCurrent
    /\ \E n \in 1..Len(log) :
          /\ IsCall(log[n])
          /\ log[n].attempt = 2
          /\ log[n].pos = 3
          /\ log[n].res = "ok"

(***************************************************************************)
(* C5: for a chapter and a subreddit the post-creation call is made at     *)
(* most twice, and not a second time when the latest post found after the  *)
(* back-off has the chapter's url.                                         *)
(***************************************************************************)
C5_AtMostOneRetry ==
    LogIsCurrent =>
        /\ \A s \in 1..Len(subs) : \A p \in 1..Len(links) :
              Len(CallsFor(subs[s], p)) <= 2
        /\ \A n \in 1..Len(log) :
              (log[n].op = "requery" /\ log[n].res # "none"
                  /\ log[n].seen = log[n].url) =>
                  /\ Len(CallsFor(log[n].sub, log[n].pos)) = 1
                  /\ n = Len(log) => pc # "retry"

C5_Witness ==
    /\ pc = "returned"
    /\ \E n \in 1..Len(log) :
          /\ log[n].op = "requery"
          /\ log[n].seen = log[n].url
    /\ \E n \in 1..Len(log) :
          /\ log[n].op = "submit"
          /\ log[n].attempt = 1
          /\ log[n].res = "ok"

(***************************************************************************)
(* C6: a failed retry is a failure of that chapter and subreddit only: the *)
(* replay goes on with the next one, the process is not ended by it.       *)
(***************************************************************************)
RetryFailed ==
    /\ log # <<>>
    /\ log[Len(log)].op = "submit"
    /\ log[Len(log)].attempt = 2
    /\ log[Len(log)].res # "ok"

C6_RetryFailureIsolated ==
    (LogIsCurrent /\ RetryFailed) => pc \in {"submit", "returned"}

(***************************************************************************)
(* C7: when run() finds no post by a permitted uploader it returns without *)
(* an exception and the cycle makes no submission call.                    *)
(***************************************************************************)
C7_UnresolvedIsNoOp ==
    [][(pc = "run" /\ pc' # "run" /\ GetLatestPost = NoPost) =>
          /\ pc' = "returned"
          /\ err' = "none"
          /\ outcome' = "unresolved"
          /\ log' = <<>>
          /\ reddit' = reddit]_vars

C7_Witness ==
    /\ pc = "returned"
    /\ outcome = "unresolved"
    /\ Len(links) > 0
    /\ reddit[MirrorSub] # <<>>

(***************************************************************************)
(* C8: a fetch that answers with a status other than 200 raises TgwpError  *)
(* before the parser is called and leaves no new list of links, in the     *)
(* constructor as in the loop.                                             *)
(***************************************************************************)
C8_BadStatusNeverParsed ==
    [][(fetches' = fetches + 1 /\ last_status' # 200) =>
          /\ parses' = parses
          /\ links' = links
          /\ pc' = "crashed"
          /\ err' = "TgwpError"]_vars

C8_Witness ==
    /\ pc = "crashed"
    /\ err = "TgwpError"
    /\ fetches = 1
    /\ parses = 0
    /\ last_status = 404

(***************************************************************************)
(* C9: in looping mode (a loop with an interval) an extraction error ends  *)
(* the cycle it happens in and not the loop: the process is not ended by   *)
(* it, so that another cycle can fetch the page again.                     *)
(***************************************************************************)
C9_LoopSurvivesExtractionError ==
    (mode = "loop" /\ Sleeps(interval) /\ cycles >= 1 /\ last_status # 200) =>
        pc # "crashed"

(***************************************************************************)
(* C10: started with an interval of zero, the loop makes one cycle and no  *)
(* second one.                                                             *)
(***************************************************************************)
C10_ZeroIntervalSingleCycle ==
    (mode = "loop" /\ interval = 0) => cycles <= 1

(***************************************************************************)
(* C11: an account other than the admin sends the admin one message for    *)
(* each post-creation call that succeeds, with the title of that call, and *)
(* none for a call that fails; the admin's own account sends none.         *)
(***************************************************************************)
IsUpdate(m) == m.subject = "TGWP Update"

Succeeded(e) == e.op = "submit" /\ e.res = "ok"

UpdatesSent == SelectSeq(sent, IsUpdate)

C11_OneMessagePerPost ==
    LET made == SelectSeq(log, Succeeded) IN
    IF user # Admin
    THEN /\ Len(UpdatesSent) = Len(made)
         /\ \A n \in 1..Len(made) : UpdatesSent[n].title = made[n].title
    ELSE UpdatesSent = <<>>

C11_Witness ==
    /\ user # Admin
    /\ pc = "returned"
    /\ Len(UpdatesSent) = 2
    /\ \E n \in 1..Len(log) :
          log[n].op = "submit" /\ log[n].res = "RateLimitExceeded"

(***************************************************************************)
(* What the properties of the extraction read from a document.             *)
(***************************************************************************)
\* the position of the first sentinel anchor, 0 when there is none
FirstSentinel(doc) ==
    LET at == { k \in 1..Len(doc.anchors) : doc.anchors[k].text = Sentinel }
    IN  IF at = {} THEN 0 ELSE CHOOSE k \in at : \A m \in at : k <= m

\* the constructor has parsed the document and returned the links
Extracted == pc = "run" /\ cycles = 0 /\ parses = 1

IsSynthetic(c) == c.url = IndexUrl

(***************************************************************************)
(* C12: every chapter made for an inline story carries the post's title,   *)
(* with the suffix exactly when the post's title without suffix is the     *)
(* title of the chapter just before it, and never that chapter's title.    *)
(***************************************************************************)
C12_SyntheticTitle ==
    Extracted =>
        \A q \in 1..Len(links) :
            IsSynthetic(links[q]) =>
                /\ q > 1
                /\ LET prev == links[q - 1].title IN
                   /\ links[q].title =
                         IF forum.title = prev
                         THEN Append(forum.title, ContSuffix)
                         ELSE forum.title
                   /\ links[q].title # prev

(***************************************************************************)
(* C13: the extraction of a document without a sentinel anchor ends with   *)
(* TgwpError.                                                              *)
(***************************************************************************)
C13_NoSentinelIsTgwpError ==
    (parses = 1 /\ cycles = 0 /\ FirstSentinel(forum) = 0) =>
        (pc = "crashed" /\ err = "TgwpError")

(***************************************************************************)
(* C15: on a document with a sentinel anchor whose earlier anchors are     *)
(* each followed by a string, the extraction returns, and the chapters     *)
(* that are not made for an inline story are the anchors before the first  *)
(* sentinel, text and href, in the order of the document; the sentinel and *)
(* the anchors after it give nothing.                                      *)
(***************************************************************************)
WellFormed(doc) ==
    /\ FirstSentinel(doc) > 0
    /\ \A k \in 1..(FirstSentinel(doc) - 1) :
          doc.anchors[k].after \in {"blank", "text"}

Constructing == pc \in {"start", "init_links"}

Constructed == pc \in {"run", "loop_fetch"} /\ cycles = 0

C14_ConstructorCalls ==
    [][/\ (logins' # logins) =>
             (pc = "start" /\ logins = 0 /\ logins' = 1 /\ fetches' = 0)
       /\ Constructing =>
             /\ (fetches' # fetches) =>
                   (logins = 1 /\ fetches = 0 /\ fetches' = 1)
             /\ reddit' = reddit
             /\ latest_post' = NoPost
             /\ log' = <<>>
             /\ sent' = <<>>
       /\ (Constructing /\ Constructed') =>
             /\ logins' = 1
             /\ fetches' = 1
             /\ self_settings' = Settings(subs')
             /\ self_url' = IndexUrl
             /\ self_template' = TitleTemplate
             /\ subs' = self_settings'.subs
      ]_vars

C14_Witness ==
    /\ Constructed
    /\ pc = "loop_fetch"
    /\ logins = 1
    /\ fetches = 1
    /\ Len(links) = 3
    /\ subs = <<"tgwp", "other">>

(***************************************************************************)
(* C16: the submission calls of a run come one subreddit after the other,  *)
(* in the order of self.subs, and within a subreddit in ascending chapter  *)
(* position: no call for a later position or a later subreddit precedes a  *)
(* call for an earlier one.                                                *)
(***************************************************************************)
SubPosition(sub) == CHOOSE s \in 1..Len(subs) : subs[s] = sub

C16_CallsInOrder ==
    \A n \in 1..Len(log) :
        IsCall(log[n]) =>
            \A m \in 1..(n - 1) :
                IsCall(log[m]) =>
                    /\ SubPosition(log[m].sub) <= SubPosition(log[n].sub)
                    /\ (log[m].sub = log[n].sub) =>
                          /\ log[m].pos <= log[n].pos
                          /\ (log[m].pos = log[n].pos) =>
                                /\ n = m + 2
                                /\ log[m].attempt = 1
                                /\ log[n].attempt = 2

C16_Witness ==
    /\ ReplayFinished
    /\ Len(subs) = 2
    /\ Len(CallsTo(subs[1])) >= 2
    /\ Len(CallsTo(subs[2])) >= 3
    /\ \E n \in 1..Len(log) : IsCall(log[n]) /\ log[n].attempt = 2

(***************************************************************************)
(* C17: after a rate limit on a chapter at a subreddit, the chapter is     *)
(* skipped as already submitted only if the latest post by an uploader at  *)
(* that same subreddit has the chapter's url.                              *)
(***************************************************************************)
SkipsChapter ==
    /\ pc = "backoff"
    /\ Len(log') = Len(log) + 1
    /\ log'[Len(log')].op = "requery"
    /\ log'[Len(log')].res = "match"

C17_SkipUsesOwnDestination ==
    [][SkipsChapter =>
          FirstByUploader(reddit[subs[sub_idx]]).url = NewChapters[chap_idx].url
      ]_vars

(***************************************************************************)
(* C18: when the latest post asked for after a back-off is none, the       *)
(* replay does not end with an unhandled error.                            *)
(***************************************************************************)
RequeryFoundNone ==
    /\ log # <<>>
    /\ log[Len(log)].op = "requery"
    /\ log[Len(log)].res = "none"

C18_EmptyRequeryHandled == RequeryFoundNone => (pc # "crashed" /\ err = "none")

(***************************************************************************)
(* C19: _get_latest_post gives the newest post of the listing whose author *)
(* is a permitted uploader, whatever newer posts by others precede it; the *)
(* admin is sent the problem message exactly when the listing has no such  *)
(* post, and the answer is then none.                                      *)
(***************************************************************************)
ByUploader(n) == reddit[MirrorSub][n].author \in Uploaders

NewestByUploader ==
    { n \in 1..Len(reddit[MirrorSub]) :
        ByUploader(n) /\ \A m \in 1..(n - 1) : ~ByUploader(m) }

IsProblem(m) == m.subject = "TGWP_Updater problem"

ProblemsSent(msgs) == Len(SelectSeq(msgs, IsProblem))

C19_NewestByUploader ==
    [][/\ (pc = "run" /\ pc' # "run") =>
             /\ \A n \in NewestByUploader : latest_post' = reddit[MirrorSub][n]
             /\ (NewestByUploader = {}) = (latest_post' = NoPost)
             /\ (NewestByUploader = {}) = (ProblemsSent(sent') = 1)
             /\ ProblemsSent(sent') \in {0, 1}
       /\ (pc = "backoff" /\ pc' # "backoff") =>
             /\ \A n \in NewestByUploader :
                   log'[Len(log')].seen = reddit[MirrorSub][n].url
             /\ (NewestByUploader = {}) = (log'[Len(log')].res = "none")
             /\ (NewestByUploader = {}) =
                   (ProblemsSent(sent') = ProblemsSent(sent) + 1)
             /\ ProblemsSent(sent') \in {ProblemsSent(sent), ProblemsSent(sent) + 1}
      ]_vars

C19_Witness ==
    /\ pc = "returned"
    /\ Len(reddit[MirrorSub]) >= 2
    /\ ~ByUploader(1)
    /\ ByUploader(2)
    /\ latest_post = reddit[MirrorSub][2]
    /\ sent = <<>>

(***************************************************************************)
(* C20: with /r/tgwp among the subreddits and the account a permitted      *)
(* uploader, a cycle whose replay completed is followed, on the same       *)
(* document, by a cycle that finds the chapter number equal to the number  *)
(* of links and makes no submission call.                                  *)
(***************************************************************************)
MirrorsToTgwp == \E s \in 1..Len(subs) : subs[s] = MirrorSub

\* run is about to start on the links of the cycle before, whose replay
\* completed; chapter_number and count are still those of that cycle
NextCycleSameDocument ==
    /\ pc = "run"
    /\ cycles >= 2
    /\ outcome = "replayed"
    /\ Len(links) = chapter_number + count
    /\ ParseLinks(forum).links = links

C20_NextCycleUpToDate ==
    [][(NextCycleSameDocument /\ pc' # "run"
           /\ MirrorsToTgwp /\ user \in Uploaders) =>
          /\ chapter_number' = Len(links)
          /\ outcome' = "uptodate"
          /\ pc' = "returned"
          /\ log' = <<>>
          /\ reddit' = reddit
      ]_vars

C20_Witness ==
    /\ pc = "returned"
    /\ cycles = 2
    /\ outcome = "uptodate"
    /\ chapter_number = Len(links)
    /\ user \in Uploaders
    /\ rate_limits = 1
    /\ Len(reddit["other"]) = Len(links)
    /\ Len(links) >= 2

====
